---- MODULE Spec2Model ----
(***************************************************************************)
(* Model of behavior_analysis.py: the bout cleaner (clean_bouts), the clip *)
(* extractor (extract_sample_clips), the gallery writer                    *)
(* (write_html_gallery) and the driver (main).                             *)
(*                                                                         *)
(* A bout is the pair <<start, end>> of integer frame indices.  Python     *)
(* lists are sequences; the scan index i keeps the source's 0-based value, *)
(* so raw_bouts[i] of the source is raw_bouts[i + 1] here.                 *)
(***************************************************************************)
EXTENDS Integers, Sequences, FiniteSets, TLC

VARIABLES
    raw_bouts,      \* clean_bouts: the argument (sorted by start by load_bouts)
    i,              \* clean_bouts: scan index, 0-based
    cleaned,        \* clean_bouts: the output list under construction
    pc,             \* clean_bouts: "loop" while scanning, "done" after return
    SAMPLES_PER_BEHAVIOUR,  \* module constant, set by the user (line 41)
    VideoFileClip,  \* module global: "class" after the import, else "None"
    bouts,          \* extract_sample_clips: argument
    fps,            \* extract_sample_clips: argument
    master,         \* the source video: "none", "open" or "closed"
    opens,          \* number of times the source video was opened
    video_dur,      \* master.duration, in ticks (see below)
    idx,            \* extract_sample_clips: index of the for loop
    saved,          \* extract_sample_clips: list of the clip filenames
    written,        \* clip files written so far, in order
    epc,            \* extract_sample_clips: position in the call
    result,         \* extract_sample_clips: the returned list
    error,          \* extract_sample_clips: the exception raised, or "none"
    behaviour_assets,   \* the dict behaviour -> artefacts, in insertion order
    html,           \* gallery.html: the chunks written to it, in order
    gpc,            \* write_html_gallery: position in the call
    gb,             \* write_html_gallery: index of the outer for loop
    ga,             \* write_html_gallery: index of the inner for loop
    found,          \* main: the *.txt files DATA_DIR.glob finds (a set)
    txt_files,      \* main: the sorted list of behaviour files
    file_k,         \* main: index of the for loop over txt_files
    m_bouts,        \* main: the local bouts
    mpc,            \* main: position in the run
    log             \* main: the steps completed so far, in order

cleanVars == <<raw_bouts, i, cleaned, pc>>

galleryVars == <<behaviour_assets, html, gpc, gb, ga>>

mainVars == <<found, txt_files, file_k, m_bouts, mpc, log>>

clipVars == <<SAMPLES_PER_BEHAVIOUR, VideoFileClip, bouts, fps, master, opens,
              video_dur, idx, saved, written, epc, result, error>>

vars == <<cleanVars, clipVars, galleryVars, mainVars>>

(***************************************************************************)
(* Bounds of the model.                                                    *)
(***************************************************************************)
MaxLen == 3         \* longest raw bout list
MaxFrame == 13      \* largest start frame of a raw bout
MaxFairFrame == 10  \* the same, in the runs that check termination
MaxBouts == 2       \* longest bout list given to extract_sample_clips
MaxClipFrame == 2   \* largest frame index of those bouts
MaxSamples == 2     \* largest SAMPLES_PER_BEHAVIOUR
MaxFps == 2         \* largest frame rate
MaxTicks == 4       \* longest video, in ticks
MaxBehaviours == 2  \* largest number of behaviours in one gallery

(***************************************************************************)
(* Inputs.  parse_tuple accepts any pair of ints, so a line may hold a     *)
(* bout whose end is before its start (duration 0 here), and bouts may     *)
(* overlap; load_bouts only sorts by start.  The code compares durations   *)
(* with 3 only, so the bouts drawn have durations 0 to 3.                  *)
(***************************************************************************)
ParsedBouts ==
    {b \in (0..MaxFrame) \X (-1..(MaxFrame + 2)) : b[2] - b[1] + 1 \in 0..3}

RECURSIVE load_bouts(_)
load_bouts(n) ==
    IF n = 0 THEN {<<>>}
    ELSE LET shorter == load_bouts(n - 1)
             full == {p \in shorter : Len(p) = n - 1}
             ext == {x \in full \X ParsedBouts :
                        Len(x[1]) = 0 \/ x[1][Len(x[1])][1] <= x[2][1]}
         IN  shorter \cup {Append(x[1], x[2]) : x \in ext}

(***************************************************************************)
(* clean_bouts                                                             *)
(***************************************************************************)
Dur(b) == b[2] - b[1] + 1

\* write_html_gallery is not running
GalleryIdle ==
    /\ behaviour_assets = <<>>
    /\ html = <<>>
    /\ gpc = "idle"
    /\ gb = 0
    /\ ga = 0

\* main is not running
MainIdle ==
    /\ found = {}
    /\ txt_files = <<>>
    /\ file_k = 0
    /\ m_bouts = <<>>
    /\ mpc = "idle"
    /\ log = <<>>

\* Variant: the merge test uses the threshold 4.
ShortBout_lt4(raw, k) == Dur(raw[k + 1]) < 4

\* line 82, first conjunct: dur < 3
ShortBout(raw, k) == Dur(raw[k + 1]) < 3

\* line 82, second conjunct: i + 1 < len(raw_bouts)
HasNext(raw, k) == k + 1 < Len(raw)

\* Variant: the gap is measured from the current bout's start.
NearNext_fromStart(raw, k) == raw[k + 2][1] - raw[k + 1][1] < 10

\* Variant: a gap of exactly 10 frames still merges.
NearNext_le10(raw, k) == raw[k + 2][1] - raw[k + 1][2] <= 10

\* line 84: nxt_start - end < 10
NearNext(raw, k) == raw[k + 2][1] - raw[k + 1][2] < 10

\* Variant: 2-frame bouts are kept.
LongBout_ge2(raw, k) == Dur(raw[k + 1]) >= 2

\* line 90: dur >= 3
LongBout(raw, k) == Dur(raw[k + 1]) >= 3

\* Variant: the merge emits the gap between the two bouts.
Merged_gap(raw, k) == <<raw[k + 1][2], raw[k + 2][1]>>

\* line 85: the bout appended by a merge
Merged(raw, k) == <<raw[k + 1][1], raw[k + 2][2]>>

\* Variant: the merge does not skip the bout it absorbed.
MergeAdvance_1(k) == k + 1

\* line 86: i += 2
MergeAdvance(k) == k + 2

\* One iteration of the while loop, lines 80-92.
clean_step(raw, k, out) ==
    IF ShortBout(raw, k) /\ HasNext(raw, k)
    THEN IF NearNext(raw, k)
         THEN [i |-> MergeAdvance(k), cleaned |-> Append(out, Merged(raw, k))]
         ELSE [i |-> k + 1, cleaned |-> out]
    ELSE IF LongBout(raw, k)
         THEN [i |-> k + 1, cleaned |-> Append(out, raw[k + 1])]
         ELSE [i |-> k + 1, cleaned |-> out]

RECURSIVE clean_loop(_, _, _)
clean_loop(raw, k, out) ==
    IF k < Len(raw)
    THEN LET r == clean_step(raw, k, out) IN clean_loop(raw, r.i, r.cleaned)
    ELSE out

\* The whole function, lines 75-93.
clean_bouts(raw) == clean_loop(raw, 0, <<>>)

InitClean ==
    /\ raw_bouts \in load_bouts(MaxLen)
    /\ i = 0
    /\ cleaned = <<>>
    /\ pc = "loop"
    /\ SAMPLES_PER_BEHAVIOUR = 5
    /\ VideoFileClip = "class"
    /\ bouts = <<>>
    /\ fps = 1
    /\ master = "none"
    /\ opens = 0
    /\ video_dur = 0
    /\ idx = 0
    /\ saved = <<>>
    /\ written = <<>>
    /\ epc = "idle"
    /\ result = <<>>
    /\ error = "none"
    /\ GalleryIdle
    /\ MainIdle

\* lines 82-87: short bout, next bout near: merge and skip both
CleanMerge ==
    /\ pc = "loop"
    /\ i < Len(raw_bouts)
    /\ ShortBout(raw_bouts, i) /\ HasNext(raw_bouts, i)
    /\ NearNext(raw_bouts, i)
    /\ cleaned' = Append(cleaned, Merged(raw_bouts, i))
    /\ i' = MergeAdvance(i)
    /\ UNCHANGED <<raw_bouts, pc>>
    /\ UNCHANGED <<clipVars, galleryVars, mainVars>>

\* lines 82-84, 88-89: short bout, next bout far: drop
CleanDropFar ==
    /\ pc = "loop"
    /\ i < Len(raw_bouts)
    /\ ShortBout(raw_bouts, i) /\ HasNext(raw_bouts, i)
    /\ ~NearNext(raw_bouts, i)
    /\ i' = i + 1
    /\ UNCHANGED <<raw_bouts, cleaned, pc>>
    /\ UNCHANGED <<clipVars, galleryVars, mainVars>>

\* lines 90-92: bout of 3 frames or more: keep
CleanKeep ==
    /\ pc = "loop"
    /\ i < Len(raw_bouts)
    /\ ~(ShortBout(raw_bouts, i) /\ HasNext(raw_bouts, i))
    /\ LongBout(raw_bouts, i)
    /\ cleaned' = Append(cleaned, raw_bouts[i + 1])
    /\ i' = i + 1
    /\ UNCHANGED <<raw_bouts, pc>>
    /\ UNCHANGED <<clipVars, galleryVars, mainVars>>

\* lines 90, 92: short last bout: nothing appended
CleanDropLast ==
    /\ pc = "loop"
    /\ i < Len(raw_bouts)
    /\ ~(ShortBout(raw_bouts, i) /\ HasNext(raw_bouts, i))
    /\ ~LongBout(raw_bouts, i)
    /\ i' = i + 1
    /\ UNCHANGED <<raw_bouts, cleaned, pc>>
    /\ UNCHANGED <<clipVars, galleryVars, mainVars>>

\* lines 79, 93: loop exit and return
CleanReturn ==
    /\ pc = "loop"
    /\ ~(i < Len(raw_bouts))
    /\ pc' = "done"
    /\ UNCHANGED <<raw_bouts, i, cleaned>>
    /\ UNCHANGED <<clipVars, galleryVars, mainVars>>

Init == InitClean

Next ==
    \/ CleanMerge
    \/ CleanDropFar
    \/ CleanKeep
    \/ CleanDropLast
    \/ CleanReturn

Spec == Init /\ [][Next]_vars

\* The same call, for the raw lists whose bouts start at MaxFairFrame at the
\* latest.
InitFair ==
    /\ InitClean
    /\ \A k \in 1..Len(raw_bouts) : raw_bouts[k][1] <= MaxFairFrame

\* The function runs to its end: a loop iteration that can be taken is taken.
SpecFair == InitFair /\ [][Next]_vars /\ WF_vars(Next)

(***************************************************************************)
(* extract_sample_clips                                                    *)
(*                                                                         *)
(* Times are exact multiples of a tick of 1 / (2 * fps) seconds, so that   *)
(* frame / fps is 2 * frame ticks and BUFFER_SEC = 0.5 s is fps ticks;     *)
(* max, min and the comparisons are those of the source.                   *)
(***************************************************************************)
Max(a, b) == IF a >= b THEN a ELSE b

Min(a, b) == IF a <= b THEN a ELSE b

\* line 42: BUFFER_SEC = 0.5, in ticks
BUFFER_SEC(rate) == rate

\* frame / fps of lines 124-125, in ticks
FrameTime(frame) == 2 * frame

\* Variant: the start is not clamped at 0.
ClipStart_unclamped(s_f, rate) == FrameTime(s_f) - BUFFER_SEC(rate)

\* line 124: s_t = max(0.0, s_f / fps - BUFFER_SEC)
ClipStart(s_f, rate) == Max(0, FrameTime(s_f) - BUFFER_SEC(rate))

\* line 125: e_t = min(video_dur, e_f / fps + BUFFER_SEC)
ClipEnd(e_f, rate, dur) == Min(dur, FrameTime(e_f) + BUFFER_SEC(rate))

\* the behaviour argument
behaviour == "rearing"

\* line 129: f"{behaviour}_{idx}.mp4"
ClipName(name, n) == <<name, n, ".mp4">>

\* Variant: sampling is skipped for negative values only.
SamplingOff_neg == SAMPLES_PER_BEHAVIOUR < 0

\* line 113: SAMPLES_PER_BEHAVIOUR <= 0
SamplingOff == SAMPLES_PER_BEHAVIOUR <= 0

\* Variant: the dependency is never reported missing.
DependencyMissing_never == FALSE

\* line 115: VideoFileClip is None
DependencyMissing == VideoFileClip = "None"

\* Variant: the slice takes one bout too many.
Sampled_plus1(list) == SubSeq(list, 1, Min(Len(list), SAMPLES_PER_BEHAVIOUR + 1))

\* line 123: bouts[:SAMPLES_PER_BEHAVIOUR], reached with a positive count
Sampled(list) == SubSeq(list, 1, Min(Len(list), SAMPLES_PER_BEHAVIOUR))

ClipBouts == (0..MaxClipFrame) \X (0..MaxClipFrame)

RECURSIVE BoutLists(_)
BoutLists(n) ==
    IF n = 0 THEN {<<>>}
    ELSE LET shorter == BoutLists(n - 1)
         IN  shorter \cup {Append(x[1], x[2]) :
                              x \in {p \in shorter : Len(p) = n - 1} \X ClipBouts}

\* The call: module state and arguments.
InitClips ==
    /\ SAMPLES_PER_BEHAVIOUR \in 0..MaxSamples
    /\ VideoFileClip \in {"class", "None"}
    /\ bouts \in BoutLists(MaxBouts)
    /\ fps \in 1..MaxFps
    /\ master = "none"
    /\ opens = 0
    /\ video_dur = 0
    /\ idx = 0
    /\ saved = <<>>
    /\ written = <<>>
    /\ epc = "call"
    /\ result = <<>>
    /\ error = "none"
    /\ raw_bouts = <<>>
    /\ i = 0
    /\ cleaned = <<>>
    /\ pc = "idle"
    /\ GalleryIdle
    /\ MainIdle

\* lines 113-114: sampling switched off: return [] at once
ExtractSkip ==
    /\ epc = "call"
    /\ SamplingOff
    /\ result' = <<>>
    /\ epc' = "returned"
    /\ UNCHANGED <<SAMPLES_PER_BEHAVIOUR, VideoFileClip, bouts, fps, master,
                   opens, video_dur, idx, saved, written, error>>
    /\ UNCHANGED <<cleanVars, galleryVars, mainVars>>

\* lines 115-116: moviepy missing: raise RuntimeError
ExtractMissing ==
    /\ epc = "call"
    /\ ~SamplingOff
    /\ DependencyMissing
    /\ error' = "RuntimeError"
    /\ epc' = "raised"
    /\ UNCHANGED <<SAMPLES_PER_BEHAVIOUR, VideoFileClip, bouts, fps, master,
                   opens, video_dur, idx, saved, written, result>>
    /\ UNCHANGED <<cleanVars, galleryVars, mainVars>>

\* lines 118-121: open the source video and read its duration
ExtractOpen ==
    /\ epc = "call"
    /\ ~SamplingOff
    /\ ~DependencyMissing
    /\ master' = "open"
    /\ opens' = opens + 1
    /\ \E d \in 1..MaxTicks : video_dur' = d
    /\ saved' = <<>>
    /\ idx' = 0
    /\ epc' = "loop"
    /\ UNCHANGED <<SAMPLES_PER_BEHAVIOUR, VideoFileClip, bouts, fps, written,
                   result, error>>
    /\ UNCHANGED <<cleanVars, galleryVars, mainVars>>

\* line 118: the video library fails to open the file
ExtractOpenFails ==
    /\ epc = "call"
    /\ ~SamplingOff
    /\ ~DependencyMissing
    /\ error' = "OSError"
    /\ epc' = "raised"
    /\ UNCHANGED <<SAMPLES_PER_BEHAVIOUR, VideoFileClip, bouts, fps, master,
                   opens, video_dur, idx, saved, written, result>>
    /\ UNCHANGED <<cleanVars, galleryVars, mainVars>>

\* lines 123-133: one iteration of the for loop: cut and write one clip
ExtractClip ==
    /\ epc = "loop"
    /\ idx < Len(Sampled(bouts))
    /\ LET s_f == Sampled(bouts)[idx + 1][1]
           e_f == Sampled(bouts)[idx + 1][2]
           s_t == ClipStart(s_f, fps)
           e_t == ClipEnd(e_f, fps, video_dur)
           out == ClipName(behaviour, idx)
       IN  /\ written' = Append(written,
                             [name |-> out, s_t |-> s_t, e_t |-> e_t,
                              bout |-> <<s_f, e_f>>, master |-> master])
           /\ saved' = Append(saved, out)
    /\ idx' = idx + 1
    /\ UNCHANGED <<SAMPLES_PER_BEHAVIOUR, VideoFileClip, bouts, fps, master,
                   opens, video_dur, epc, result, error>>
    /\ UNCHANGED <<cleanVars, galleryVars, mainVars>>

\* lines 126-132: the video library fails to cut or write a clip; the
\* exception leaves the function, line 134 is not reached
ExtractClipFails ==
    /\ epc = "loop"
    /\ idx < Len(Sampled(bouts))
    /\ error' = "OSError"
    /\ epc' = "raised"
    /\ UNCHANGED <<SAMPLES_PER_BEHAVIOUR, VideoFileClip, bouts, fps, master,
                   opens, video_dur, idx, saved, written, result>>
    /\ UNCHANGED <<cleanVars, galleryVars, mainVars>>

\* lines 134-135: loop finished: close the video and return saved
ExtractReturn ==
    /\ epc = "loop"
    /\ ~(idx < Len(Sampled(bouts)))
    /\ master' = "closed"
    /\ result' = saved
    /\ epc' = "returned"
    /\ UNCHANGED <<SAMPLES_PER_BEHAVIOUR, VideoFileClip, bouts, fps, opens,
                   video_dur, idx, saved, written, error>>
    /\ UNCHANGED <<cleanVars, galleryVars, mainVars>>

NextClips ==
    \/ ExtractSkip
    \/ ExtractMissing
    \/ ExtractOpen
    \/ ExtractOpenFails
    \/ ExtractClip
    \/ ExtractClipFails
    \/ ExtractReturn

SpecClips == InitClips /\ [][NextClips]_vars

(***************************************************************************)
(* write_html_gallery                                                      *)
(*                                                                         *)
(* A behaviour name is a number (its rank among the file stems); an asset  *)
(* is the pair <<stem, suffix>> of its filename.  The dict is the sequence *)
(* of its items in insertion order, each [name, assets].  The file is the  *)
(* sequence of the chunks written to it.                                   *)
(***************************************************************************)
\* line 49
IMG_EXTENSIONS == {".png", ".jpg", ".jpeg", ".gif"}

\* line 50
VIDEO_EXTENSIONS == {".mp4", ".webm", ".mov", ".avi"}

\* str.lower() on the suffixes that occur
Lower(ext) ==
    CASE ext = ".PNG" -> ".png"
      [] ext = ".MP4" -> ".mp4"
      [] OTHER -> ext

\* line 150: Path(asset).suffix.lower()
Ext(asset) == Lower(asset[2])

\* Variant: a behaviour without assets still gets its section.
NoAssets_never(assets) == FALSE

\* line 144: not assets
NoAssets(assets) == assets = <<>>

Chunk(tag, name, asset) == [tag |-> tag, behaviour |-> name, asset |-> asset]

NoAsset == <<"", "">>

\* lines 141-142: the head of the page
HeadChunks == <<Chunk("head", 0, NoAsset), Chunk("h1", 0, NoAsset)>>

\* lines 146-148: <h2>behaviour</h2> and the opening <div>
HeadingChunk(name) == Chunk("h2", name, NoAsset)

\* lines 150-160: what one asset adds to the page
AssetChunks(name, asset) ==
    IF Ext(asset) \in IMG_EXTENSIONS
    THEN <<Chunk("img", name, asset)>>
    ELSE IF Ext(asset) \in VIDEO_EXTENSIONS
         THEN <<Chunk("video/mp4", name, asset)>>
         ELSE <<>>

\* line 161: </div>
DivEndChunk(name) == Chunk("/div", name, NoAsset)

\* line 162: </body></html>
TailChunk == Chunk("/body", 0, NoAsset)

RECURSIVE section_assets(_, _)
section_assets(name, assets) ==
    IF assets = <<>> THEN <<>>
    ELSE AssetChunks(name, Head(assets)) \o section_assets(name, Tail(assets))

RECURSIVE gallery_sections(_)
gallery_sections(items) ==
    IF items = <<>> THEN <<>>
    ELSE (IF NoAssets(Head(items).assets)
          THEN <<>>
          ELSE <<HeadingChunk(Head(items).name)>>
               \o section_assets(Head(items).name, Head(items).assets)
               \o <<DivEndChunk(Head(items).name)>>)
         \o gallery_sections(Tail(items))

\* The whole function, lines 138-163: the content of gallery.html.
write_html_gallery(items) == HeadChunks \o gallery_sections(items) \o <<TailChunk>>

Assets ==
    {<<"hist", ".PNG">>, <<"clip", ".mp4">>, <<"clip", ".avi">>,
     <<"notes", ".txt">>}

\* lists of up to two assets
AssetLists ==
    {<<>>} \cup {<<a>> : a \in Assets} \cup {<<a, b>> : a, b \in Assets}

\* dicts of up to MaxBehaviours behaviours: the keys are distinct
Mappings ==
    UNION {{m \in [1..n -> [name : 1..MaxBehaviours, assets : AssetLists]] :
               \A x, y \in 1..n : x # y => m[x].name # m[y].name} :
           n \in 0..MaxBehaviours}

InitGallery ==
    /\ behaviour_assets \in Mappings
    /\ html = <<>>
    /\ gpc = "call"
    /\ gb = 0
    /\ ga = 0
    /\ raw_bouts = <<>> /\ i = 0 /\ cleaned = <<>> /\ pc = "idle"
    /\ SAMPLES_PER_BEHAVIOUR = 5
    /\ VideoFileClip = "class"
    /\ bouts = <<>> /\ fps = 1 /\ master = "none" /\ opens = 0
    /\ video_dur = 0 /\ idx = 0 /\ saved = <<>> /\ written = <<>>
    /\ epc = "idle" /\ result = <<>> /\ error = "none"
    /\ MainIdle

\* lines 139-142: open the file and write the head
GalleryOpen ==
    /\ gpc = "call"
    /\ html' = HeadChunks
    /\ gb' = 0
    /\ gpc' = "items"
    /\ UNCHANGED <<behaviour_assets, ga>>
    /\ UNCHANGED <<cleanVars, clipVars, mainVars>>

\* lines 143-145: a behaviour without assets: continue
GallerySkip ==
    /\ gpc = "items"
    /\ gb < Len(behaviour_assets)
    /\ NoAssets(behaviour_assets[gb + 1].assets)
    /\ gb' = gb + 1
    /\ UNCHANGED <<behaviour_assets, html, gpc, ga>>
    /\ UNCHANGED <<cleanVars, clipVars, mainVars>>

\* lines 143-148: a behaviour with assets: write its heading
GalleryHeading ==
    /\ gpc = "items"
    /\ gb < Len(behaviour_assets)
    /\ ~NoAssets(behaviour_assets[gb + 1].assets)
    /\ html' = Append(html, HeadingChunk(behaviour_assets[gb + 1].name))
    /\ ga' = 0
    /\ gpc' = "assets"
    /\ UNCHANGED <<behaviour_assets, gb>>
    /\ UNCHANGED <<cleanVars, clipVars, mainVars>>

\* lines 149-160: one asset of the behaviour
GalleryAsset ==
    /\ gpc = "assets"
    /\ ga < Len(behaviour_assets[gb + 1].assets)
    /\ html' = html \o AssetChunks(behaviour_assets[gb + 1].name,
                                   behaviour_assets[gb + 1].assets[ga + 1])
    /\ ga' = ga + 1
    /\ UNCHANGED <<behaviour_assets, gpc, gb>>
    /\ UNCHANGED <<cleanVars, clipVars, mainVars>>

\* line 161: the assets are done: close the section
GallerySectionEnd ==
    /\ gpc = "assets"
    /\ ~(ga < Len(behaviour_assets[gb + 1].assets))
    /\ html' = Append(html, DivEndChunk(behaviour_assets[gb + 1].name))
    /\ gb' = gb + 1
    /\ gpc' = "items"
    /\ UNCHANGED <<behaviour_assets, ga>>
    /\ UNCHANGED <<cleanVars, clipVars, mainVars>>

\* lines 162-163: the behaviours are done: write the tail and return
GalleryClose ==
    /\ gpc = "items"
    /\ ~(gb < Len(behaviour_assets))
    /\ html' = Append(html, TailChunk)
    /\ gpc' = "written"
    /\ UNCHANGED <<behaviour_assets, gb, ga>>
    /\ UNCHANGED <<cleanVars, clipVars, mainVars>>

NextGallery ==
    \/ GalleryOpen
    \/ GallerySkip
    \/ GalleryHeading
    \/ GalleryAsset
    \/ GallerySectionEnd
    \/ GalleryClose

SpecGallery == InitGallery /\ [][NextGallery]_vars

(***************************************************************************)
(* main                                                                    *)
(*                                                                         *)
(* A file is named by the rank of its stem, which is also the behaviour.   *)
(* load_bouts, clean_bouts, save_histogram, extract_sample_clips and       *)
(* write_html_gallery are calls of main: each is one step, which returns   *)
(* or raises.                                                              *)
(***************************************************************************)
Least(S) == CHOOSE x \in S : \A y \in S : x <= y

\* line 178: sorted(DATA_DIR.glob("*.txt"))
RECURSIVE sorted(_)
sorted(S) == IF S = {} THEN <<>> ELSE <<Least(S)>> \o sorted(S \ {Least(S)})

\* line 104: f"{behaviour}_histogram.png"
HistName(name) == <<name, "histogram", ".png">>

\* an artefact filename as the gallery reads it: the name and its suffix
AssetOf(filename) == <<filename, filename[3]>>

\* lines 113-135 as one call that returns: the names of the clips
clips_returned(list, name) ==
    IF SamplingOff THEN <<>>
    ELSE [j \in 1..Len(Sampled(list)) |-> ClipName(name, j - 1)]

\* lines 196, 200: behaviour_assets[behaviour].append / .extend on a
\* defaultdict(list): a new key goes to the end of the dict
Extend(items, name, more) ==
    IF \E p \in 1..Len(items) : items[p].name = name
    THEN [p \in 1..Len(items) |->
             IF items[p].name = name
             THEN [name |-> name, assets |-> items[p].assets \o more]
             ELSE items[p]]
    ELSE Append(items, [name |-> name, assets |-> more])

\* what load_bouts may return for a file: main does not look at the frames,
\* so the lists drawn start at frame 0 or 1; they clean to 0, 1 or 2 bouts
MainLoads ==
    {raw \in load_bouts(2) : \A p \in 1..Len(raw) : raw[p][1] <= 1}

InitMain ==
    /\ found \in SUBSET (1..MaxBehaviours)
    /\ SAMPLES_PER_BEHAVIOUR \in 0..MaxSamples
    /\ VideoFileClip \in {"class", "None"}
    /\ txt_files = <<>>
    /\ file_k = 0
    /\ m_bouts = <<>>
    /\ mpc = "setup"
    /\ log = <<>>
    /\ behaviour_assets = <<>>
    /\ html = <<>> /\ gpc = "idle" /\ gb = 0 /\ ga = 0
    /\ raw_bouts = <<>> /\ i = 0 /\ cleaned = <<>> /\ pc = "idle"
    /\ bouts = <<>> /\ fps = 1 /\ master = "none" /\ opens = 0
    /\ video_dur = 0 /\ idx = 0 /\ saved = <<>> /\ written = <<>>
    /\ epc = "idle" /\ result = <<>> /\ error = "none"

\* what a step of main leaves alone besides its own variables
MainFrame ==
    UNCHANGED <<cleanVars, SAMPLES_PER_BEHAVIOUR, VideoFileClip, bouts, master,
                opens, video_dur, idx, saved, written, epc, result, gpc, gb,
                ga, found>>

\* lines 172-188: the inputs exist, files were found, moviepy is there:
\* read the frame rate and start with an empty dict
MainSetup ==
    /\ mpc = "setup"
    /\ sorted(found) # <<>>
    /\ VideoFileClip # "None"
    /\ txt_files' = sorted(found)
    /\ \E rate \in 1..MaxFps : fps' = rate
    /\ behaviour_assets' = <<>>
    /\ file_k' = 0
    /\ mpc' = "load"
    /\ UNCHANGED <<m_bouts, log, html, error>>
    /\ MainFrame

\* lines 172-175, 184: DATA_DIR or VIDEO_PATH is missing, or the video
\* cannot be opened
MainSetupFails ==
    /\ mpc = "setup"
    /\ error' = "FileNotFoundError"
    /\ mpc' = "failed"
    /\ UNCHANGED <<txt_files, file_k, m_bouts, log, behaviour_assets, html, fps>>
    /\ MainFrame

\* lines 179-183: no *.txt file, or moviepy missing
MainSetupRaises ==
    /\ mpc = "setup"
    /\ sorted(found) = <<>> \/ VideoFileClip = "None"
    /\ error' = "RuntimeError"
    /\ mpc' = "failed"
    /\ UNCHANGED <<txt_files, file_k, m_bouts, log, behaviour_assets, html, fps>>
    /\ MainFrame

\* lines 190-192: load_bouts(txt) of the next file
MainLoad ==
    /\ mpc = "load"
    /\ file_k < Len(txt_files)
    /\ \E raw \in MainLoads : m_bouts' = raw
    /\ log' = Append(log, <<txt_files[file_k + 1], "load">>)
    /\ mpc' = "clean"
    /\ UNCHANGED <<txt_files, file_k, behaviour_assets, html, fps, error>>
    /\ MainFrame

\* line 192: load_bouts raises (unreadable file, malformed line)
MainLoadFails ==
    /\ mpc = "load"
    /\ file_k < Len(txt_files)
    /\ error' = "ValueError"
    /\ mpc' = "failed"
    /\ UNCHANGED <<txt_files, file_k, m_bouts, log, behaviour_assets, html, fps>>
    /\ MainFrame

\* line 192: clean_bouts
MainClean ==
    /\ mpc = "clean"
    /\ m_bouts' = clean_bouts(m_bouts)
    /\ log' = Append(log, <<txt_files[file_k + 1], "clean">>)
    /\ mpc' = "hist"
    /\ UNCHANGED <<txt_files, file_k, behaviour_assets, html, fps, error>>
    /\ MainFrame

\* lines 195-196: save_histogram and append its name
MainHist ==
    /\ mpc = "hist"
    /\ behaviour_assets' = Extend(behaviour_assets, txt_files[file_k + 1],
                                  <<AssetOf(HistName(txt_files[file_k + 1]))>>)
    /\ log' = Append(log, <<txt_files[file_k + 1], "hist">>)
    /\ mpc' = "clips"
    /\ UNCHANGED <<txt_files, file_k, m_bouts, html, fps, error>>
    /\ MainFrame

\* Variant: a histogram that cannot be saved is skipped and the run goes on.
MainHistFails_skip ==
    /\ mpc = "hist"
    /\ error' = "OSError"
    /\ mpc' = "clips"
    /\ UNCHANGED <<txt_files, file_k, m_bouts, log, behaviour_assets, html, fps>>
    /\ MainFrame

\* line 195: save_histogram raises (plotting or file error)
MainHistFails ==
    /\ mpc = "hist"
    /\ error' = "OSError"
    /\ mpc' = "failed"
    /\ UNCHANGED <<txt_files, file_k, m_bouts, log, behaviour_assets, html, fps>>
    /\ MainFrame

\* lines 199-200: extract_sample_clips and extend with its names; then the
\* next file
MainClips ==
    /\ mpc = "clips"
    /\ LET name == txt_files[file_k + 1]
           clips == clips_returned(m_bouts, name)
       IN  behaviour_assets' =
               Extend(behaviour_assets, name,
                      [j \in 1..Len(clips) |-> AssetOf(clips[j])])
    /\ log' = Append(log, <<txt_files[file_k + 1], "clips">>)
    /\ file_k' = file_k + 1
    /\ mpc' = "load"
    /\ UNCHANGED <<txt_files, m_bouts, html, fps, error>>
    /\ MainFrame

\* line 199: extract_sample_clips raises (video library failure)
MainClipsFails ==
    /\ mpc = "clips"
    /\ ~SamplingOff
    /\ error' = "OSError"
    /\ mpc' = "failed"
    /\ UNCHANGED <<txt_files, file_k, m_bouts, log, behaviour_assets, html, fps>>
    /\ MainFrame

\* lines 190, 202-204: all files done: write the gallery
MainGallery ==
    /\ mpc = "load"
    /\ ~(file_k < Len(txt_files))
    /\ html' = write_html_gallery(behaviour_assets)
    /\ mpc' = "done"
    /\ UNCHANGED <<txt_files, file_k, m_bouts, log, behaviour_assets, fps, error>>
    /\ MainFrame

\* line 140: gallery.html cannot be opened for writing
MainGalleryFails ==
    /\ mpc = "load"
    /\ ~(file_k < Len(txt_files))
    /\ error' = "OSError"
    /\ mpc' = "failed"
    /\ UNCHANGED <<txt_files, file_k, m_bouts, log, behaviour_assets, html, fps>>
    /\ MainFrame

NextMain ==
    \/ MainSetup
    \/ MainSetupFails
    \/ MainSetupRaises
    \/ MainLoad
    \/ MainLoadFails
    \/ MainClean
    \/ MainHist
    \/ MainHistFails
    \/ MainClips
    \/ MainClipsFails
    \/ MainGallery
    \/ MainGalleryFails

SpecMain == InitMain /\ [][NextMain]_vars

(***************************************************************************)
(* Properties of clean_bouts                                               *)
(***************************************************************************)
SortedByStart(raw) ==
    \A k \in 1..(Len(raw) - 1) : raw[k][1] <= raw[k + 1][1]

NonOverlapping(raw) ==
    \A k \in 1..(Len(raw) - 1) : raw[k][2] < raw[k + 1][1]

WellFormed(raw) ==
    /\ SortedByStart(raw)
    /\ NonOverlapping(raw)
    /\ \A k \in 1..Len(raw) : raw[k][1] <= raw[k][2]

AllLong(list) == \A k \in 1..Len(list) : list[k][2] - list[k][1] + 1 >= 3

Range(seq) == {seq[k] : k \in 1..Len(seq)}

\* C1 as stated: for sorted, non-overlapping raw bouts a second cleaning pass
\* over the cleaned list returns the cleaned list unchanged.
C1_Idempotent ==
    (pc = "done" /\ WellFormed(raw_bouts)) => clean_bouts(cleaned) = cleaned

\* C1 amended: for sorted, non-overlapping raw bouts a second cleaning pass
\* returns the cleaned list unchanged exactly when the cleaned list holds no
\* bout shorter than 3 frames; a merge can emit such a bout.
C1_IdempotentIffAllLong ==
    (pc = "done" /\ WellFormed(raw_bouts))
        => ((clean_bouts(cleaned) = cleaned) <=> AllLong(cleaned))

\* A pass that merged, produced only bouts of 3 frames or more, and is a
\* fixed point of the cleaner.
C1_Witness ==
    /\ pc = "done" /\ WellFormed(raw_bouts)
    /\ Len(cleaned) >= 2 /\ AllLong(cleaned)
    /\ \E j \in 1..Len(cleaned) : cleaned[j] \notin Range(raw_bouts)
    /\ clean_bouts(cleaned) = cleaned

\* C2: for well-formed raw bouts, every bout of the output has duration
\* >= 3 or is (raw[k].start, raw[k+1].end) for two adjacent raw bouts, and
\* no raw bout of duration < 3 appears in the output unchanged.
C2_ShortOnlyByMerge ==
    WellFormed(raw_bouts) =>
        /\ \A j \in 1..Len(cleaned) :
              \/ cleaned[j][2] - cleaned[j][1] + 1 >= 3
              \/ \E k \in 1..(Len(raw_bouts) - 1) :
                    cleaned[j] = <<raw_bouts[k][1], raw_bouts[k + 1][2]>>
        /\ \A k \in 1..Len(raw_bouts) :
              raw_bouts[k][2] - raw_bouts[k][1] + 1 < 3
                  => raw_bouts[k] \notin Range(cleaned)

\* The output holds a bout shorter than 3 frames, made by a merge, and a
\* short raw bout was consumed without a merge.
C2_Witness ==
    /\ pc = "done" /\ WellFormed(raw_bouts)
    /\ \E j \in 1..Len(cleaned) : cleaned[j][2] - cleaned[j][1] + 1 < 3
    /\ Len(raw_bouts) = 3 /\ Len(cleaned) = 1

\* C3: for raw bouts (closed intervals, start <= end) sorted by start and
\* non-overlapping, the output is strictly ascending by start and each
\* output bout ends before the next one starts.
C3_OutputOrdered ==
    WellFormed(raw_bouts) =>
        \A j \in 1..(Len(cleaned) - 1) :
            /\ cleaned[j][1] < cleaned[j + 1][1]
            /\ cleaned[j][2] < cleaned[j + 1][1]

\* An output of two bouts or more, one of them merged, from ordered input.
C3_Witness ==
    /\ pc = "done"
    /\ WellFormed(raw_bouts)
    /\ Len(cleaned) >= 2
    /\ \E j \in 1..Len(cleaned) : cleaned[j] \notin Range(raw_bouts)

InBout(f, b) == b[1] <= f /\ f <= b[2]

\* out is made of disjoint groups of raw, in order: each bout of out is one
\* raw bout, or spans two adjacent raw bouts; raw bouts in no group were
\* dropped.  With covered, every frame of a two-bout span lies in one of the
\* two bouts; without it, fewer than 10 - 1 frames lie between them.
RECURSIVE Groups(_, _, _)
Groups(out, raw, covered) ==
    IF out = <<>> THEN TRUE
    ELSE IF raw = <<>> THEN FALSE
    ELSE \/ /\ out[1] = raw[1]
            /\ Groups(Tail(out), Tail(raw), covered)
         \/ /\ Len(raw) >= 2
            /\ out[1] = <<raw[1][1], raw[2][2]>>
            /\ IF covered
               THEN \A f \in out[1][1]..out[1][2] :
                        InBout(f, raw[1]) \/ InBout(f, raw[2])
               ELSE raw[2][1] - raw[1][2] - 1 < 10 - 1
            /\ Groups(Tail(out), Tail(Tail(raw)), covered)
         \/ Groups(out, Tail(raw), covered)

\* C4 as stated, for well-formed raw bouts: the bouts emitted so far are disjoint, order-preserving
\* groups of the raw bouts scanned so far, each one raw bout or
\* (raw[k].start, raw[k+1].end), and every frame of an emitted bout lies in
\* one of the raw bouts it replaces.
C4_DerivedAndCovered ==
    WellFormed(raw_bouts) => Groups(cleaned, SubSeq(raw_bouts, 1, i), TRUE)

\* C4 amended: the same grouping, but a merged bout is the span from
\* raw[k].start to raw[k+1].end: the frames between the two raw bouts
\* (fewer than 9 of them) are in the output bout and in no raw bout.
C4_DerivedAsSpan ==
    Groups(cleaned, SubSeq(raw_bouts, 1, i), FALSE)

\* A merge across a gap: the output bout holds a frame of no raw bout.
C4_Witness ==
    /\ pc = "done" /\ WellFormed(raw_bouts)
    /\ \E j \in 1..Len(cleaned) :
          \E f \in cleaned[j][1]..cleaned[j][2] :
              \A k \in 1..Len(raw_bouts) : ~InBout(f, raw_bouts[k])

\* C5: at a bout of duration < 3 with a next bout that starts fewer than 10
\* frames after its end, the step appends (raw[i].start, raw[i+1].end) and
\* moves the index to i + 2, whatever the next bout's duration; bouts
\* already emitted are never changed by a later step; and
\* [(0,1),(5,20)] is cleaned to [(0,20)].
C5_MergeStep ==
    /\ clean_bouts(<< <<0, 1>>, <<5, 20>> >>) = << <<0, 20>> >>
    /\ [][/\ SubSeq(cleaned', 1, Len(cleaned)) = cleaned
          /\ (/\ pc = "loop"
              /\ i + 1 < Len(raw_bouts)
              /\ raw_bouts[i + 1][2] - raw_bouts[i + 1][1] + 1 < 3
              /\ raw_bouts[i + 2][1] - raw_bouts[i + 1][2] < 10)
             => /\ cleaned' = Append(cleaned,
                                 <<raw_bouts[i + 1][1], raw_bouts[i + 2][2]>>)
                /\ i' = i + 2]_vars

\* A merge with a next bout of 3 frames has acted, and a third bout
\* followed it.
C5_Witness ==
    /\ i = 2 /\ Len(raw_bouts) = 3 /\ Len(cleaned) = 1
    /\ WellFormed(raw_bouts)
    /\ raw_bouts[1][2] - raw_bouts[1][1] + 1 < 3
    /\ raw_bouts[2][2] - raw_bouts[2][1] + 1 >= 3
    /\ raw_bouts[2][1] - raw_bouts[1][2] < 10
    /\ raw_bouts[3][1] - raw_bouts[2][2] < 10
    /\ cleaned[1] = <<raw_bouts[1][1], raw_bouts[2][2]>>

C7_NoVideoIOWhenOff ==
    SAMPLES_PER_BEHAVIOUR = 0 =>
        /\ master = "none" /\ opens = 0
        /\ written = <<>>
        /\ epc \in {"call", "returned"}
        /\ error = "none"
        /\ epc = "returned" => result = <<>>

\* The call has returned with sampling off, for a list of two bouts or more.
C7_Witness ==
    /\ SAMPLES_PER_BEHAVIOUR = 0
    /\ epc = "returned"
    /\ Len(bouts) >= 2

\* C8: with SAMPLES_PER_BEHAVIOUR = k > 0 and n bouts, a call that returns
\* has written exactly min(n, k) clips, the j-th from the j-th bout and
\* named <behaviour>_<j>.mp4 (0-based), and returns those names in order;
\* a list shorter than k raises nothing: the function raises only for the
\* missing dependency, and the video library only at the open or at the
\* write of a clip that is due.
C8_ClipsOfFirstBouts ==
    SAMPLES_PER_BEHAVIOUR > 0 =>
        LET n == Len(bouts)
            k == SAMPLES_PER_BEHAVIOUR
            m == IF n <= k THEN n ELSE k
        IN  /\ epc = "returned" =>
                /\ Len(written) = m
                /\ result = [j \in 1..m |-> <<behaviour, j - 1, ".mp4">>]
                /\ \A j \in 1..m :
                      /\ written[j].name = <<behaviour, j - 1, ".mp4">>
                      /\ written[j].bout = bouts[j]
            /\ Len(written) <= m
            /\ error = "RuntimeError" => VideoFileClip = "None"
            /\ error = "OSError" => (opens = 0 \/ idx < m)

\* A call given fewer bouts than SAMPLES_PER_BEHAVIOUR returned one clip per
\* bout.
C8_Witness ==
    /\ epc = "returned"
    /\ SAMPLES_PER_BEHAVIOUR > Len(bouts)
    /\ Len(bouts) >= 1
    /\ Len(result) = Len(bouts)
    /\ Len(written) = Len(bouts)

\* C9 as stated: with VideoFileClip unavailable the call never returns: it
\* raises the missing-dependency error, before the video is opened and
\* before any clip is written.
C9_MissingAlwaysRaises ==
    VideoFileClip = "None" =>
        /\ master = "none" /\ opens = 0
        /\ written = <<>>
        /\ epc \in {"call", "raised"}
        /\ epc = "raised" => error = "RuntimeError"

\* C9 amended: the same, for calls with SAMPLES_PER_BEHAVIOUR > 0; with
\* SAMPLES_PER_BEHAVIOUR = 0 the call returns [] before the dependency is
\* looked at.
C9_MissingRaisesWhenSampling ==
    (VideoFileClip = "None" /\ SAMPLES_PER_BEHAVIOUR > 0) =>
        /\ master = "none" /\ opens = 0
        /\ written = <<>>
        /\ epc \in {"call", "raised"}
        /\ epc = "raised" => error = "RuntimeError"

\* The missing-dependency error was raised for a non-empty bout list.
C9_Witness ==
    /\ VideoFileClip = "None"
    /\ SAMPLES_PER_BEHAVIOUR > 0
    /\ Len(bouts) >= 1
    /\ epc = "raised" /\ error = "RuntimeError"

\* The time range of a written clip is the one lines 124-125 compute.
ClipRangeAsComputed(w) ==
    LET lo == 2 * w.bout[1] - fps
        hi == 2 * w.bout[2] + fps
    IN  /\ w.s_t = IF lo < 0 THEN 0 ELSE lo
        /\ w.e_t = IF hi > video_dur THEN video_dur ELSE hi

\* C10 as stated: every clip written for a bout (s, e) has the range
\* [max(0, s/fps - BUFFER_SEC), min(video_dur, e/fps + BUFFER_SEC)], and for
\* 0 <= s <= e both ends lie in [0, video_dur] with start <= end.
C10_RangeInsideVideo ==
    \A j \in 1..Len(written) :
        LET w == written[j]
        IN  /\ ClipRangeAsComputed(w)
            /\ (0 <= w.bout[1] /\ w.bout[1] <= w.bout[2]) =>
                  /\ 0 <= w.s_t /\ w.s_t <= video_dur
                  /\ 0 <= w.e_t /\ w.e_t <= video_dur
                  /\ w.s_t <= w.e_t

\* C10 amended: the range is as computed; for 0 <= s <= e the start is >= 0
\* and the end lies in [0, video_dur]; the start is <= video_dur and <= the
\* end when s/fps - BUFFER_SEC <= video_dur (the start is clamped at 0 only).
C10_RangeInsideVideoIfStartInside ==
    \A j \in 1..Len(written) :
        LET w == written[j]
        IN  /\ ClipRangeAsComputed(w)
            /\ (0 <= w.bout[1] /\ w.bout[1] <= w.bout[2]) =>
                  /\ 0 <= w.s_t
                  /\ 0 <= w.e_t /\ w.e_t <= video_dur
                  /\ 2 * w.bout[1] - fps <= video_dur =>
                        (w.s_t <= video_dur /\ w.s_t <= w.e_t)

\* A clip was written whose start was clamped at 0 and whose end was clamped
\* at the video's duration, and a later one that starts inside the video.
C10_Witness ==
    /\ Len(written) >= 2
    /\ 2 * written[1].bout[1] - fps < 0
    /\ written[1].bout[1] <= written[1].bout[2]
    /\ 2 * written[1].bout[2] + fps > video_dur
    /\ written[1].s_t = 0 /\ written[1].e_t = video_dur
    /\ written[2].bout[1] <= written[2].bout[2]
    /\ written[2].s_t > 0 /\ written[2].s_t <= video_dur

(***************************************************************************)
(* Properties of write_html_gallery                                        *)
(***************************************************************************)
IsImageName(asset) == asset[2] \in {".png", ".PNG", ".gif", ".jpg", ".jpeg"}

IsVideoName(asset) == asset[2] \in {".mp4", ".MP4", ".avi", ".mov", ".webm"}

\* the behaviours of the dict that have at least one asset, in dict order
RECURSIVE NamesWithAssets(_)
NamesWithAssets(items) ==
    IF items = <<>> THEN <<>>
    ELSE (IF Len(Head(items).assets) > 0 THEN <<Head(items).name>> ELSE <<>>)
         \o NamesWithAssets(Tail(items))

\* the image and video elements a list of assets calls for, in list order
RECURSIVE ElementsFor(_)
ElementsFor(assets) ==
    IF assets = <<>> THEN <<>>
    ELSE (IF IsImageName(Head(assets)) THEN << <<"img", Head(assets)>> >>
          ELSE IF IsVideoName(Head(assets))
               THEN << <<"video/mp4", Head(assets)>> >>
               ELSE <<>>)
         \o ElementsFor(Tail(assets))

\* C11: the written page has no chunk at all for a behaviour whose asset
\* list is empty; for the behaviours with assets it has exactly one heading
\* each, in the dict's insertion order; and the elements of a behaviour's
\* section are one image element per image filename and one video element
\* per video filename, in list order, between its heading and its end.
C11_SectionsOfGallery ==
    gpc = "written" =>
        LET IsHeading(c) == c.tag = "h2"
            headings == SelectSeq(html, IsHeading)
        IN  /\ [p \in 1..Len(headings) |-> headings[p].behaviour]
                  = NamesWithAssets(behaviour_assets)
            /\ \A p \in 1..Len(behaviour_assets) :
                  LET item == behaviour_assets[p]
                      Mine(c) == c.behaviour = item.name
                      mine == SelectSeq(html, Mine)
                      want == ElementsFor(item.assets)
                  IN  IF item.assets = <<>>
                      THEN mine = <<>>
                      ELSE /\ Len(mine) = Len(want) + 2
                           /\ mine[1].tag = "h2"
                           /\ mine[Len(mine)].tag = "/div"
                           /\ \A q \in 1..Len(want) :
                                 /\ mine[q + 1].tag = want[q][1]
                                 /\ mine[q + 1].asset = want[q][2]

\* A page was written for two behaviours, the first without assets, the
\* second with an upper-case image name followed by a video.
C11_Witness ==
    /\ gpc = "written"
    /\ Len(behaviour_assets) = 2
    /\ behaviour_assets[1].assets = <<>>
    /\ behaviour_assets[1].name > behaviour_assets[2].name
    /\ behaviour_assets[2].assets = << <<"hist", ".PNG">>, <<"clip", ".mp4">> >>
    /\ Len(html) = 7

\* C12: in a call that performs extraction the source video is opened
\* exactly once, every clip is written while it is open, a call that returns
\* has closed it after the last requested clip, and no call ends, by return
\* or by exception, with the source video still open.
C12_VideoOpenedOnceAndClosed ==
    /\ opens <= 1
    /\ master # "none" <=> opens = 1
    /\ \A j \in 1..Len(written) : written[j].master = "open"
    /\ written # <<>> => opens = 1
    /\ (epc = "returned" /\ opens = 1) =>
          /\ master = "closed"
          /\ Len(written) = IF Len(bouts) <= SAMPLES_PER_BEHAVIOUR
                             THEN Len(bouts) ELSE SAMPLES_PER_BEHAVIOUR
    /\ epc \in {"returned", "raised"} => master # "open"

(***************************************************************************)
(* Properties of main                                                      *)
(***************************************************************************)
StepsOfBehaviour == <<"load", "clean", "hist", "clips">>

\* the steps completed so far are the first steps of: load, clean,
\* histogram, clips of the first file, then of the second, and so on
OneAtATime ==
    \A p \in 1..Len(log) :
        /\ ((p - 1) \div 4) + 1 <= Len(txt_files)
        /\ log[p][1] = txt_files[((p - 1) \div 4) + 1]
        /\ log[p][2] = StepsOfBehaviour[((p - 1) % 4) + 1]

\* C13: the files are processed in ascending order of name, one at a time,
\* each through load, clean, histogram and clips before the next starts; a
\* failure stops the run where it happened: nothing is processed after it
\* and gallery.html is not written, and gallery.html is written only after
\* every step of every behaviour succeeded.
C13_OneAtATimeAndFailFast ==
    /\ [](/\ \A p \in 1..(Len(txt_files) - 1) : txt_files[p] < txt_files[p + 1]
          /\ (mpc # "setup" /\ Len(txt_files) > 0) =>
                {txt_files[p] : p \in 1..Len(txt_files)} = found
          /\ OneAtATime
          /\ error # "none" => (mpc = "failed" /\ Len(html) = 0)
          /\ Len(html) > 0 =>
                (mpc = "done" /\ error = "none"
                 /\ Len(log) = 4 * Len(txt_files)))
    /\ [][error # "none" =>
            UNCHANGED <<log, html, behaviour_assets, file_k, mpc, m_bouts>>]_vars

\* The second behaviour failed at its clips step after the first one was
\* processed to the end; no gallery was written.
C13_Witness ==
    /\ mpc = "failed"
    /\ Len(txt_files) = 2
    /\ Len(log) = 7
    /\ log[4] = <<txt_files[1], "clips">>
    /\ log[7] = <<txt_files[2], "hist">>
    /\ Len(html) = 0

(***************************************************************************)
(* Termination of clean_bouts                                              *)
(***************************************************************************)
\* C14: clean_bouts returns on every input; every iteration moves the index
\* forward by 1 (the bout at i is kept or dropped) or by 2 (the bouts at i
\* and i + 1 are merged), so each raw bout is consumed by one iteration; the
\* index never exceeds len(raw_bouts) and equals it at the return; the
\* output is never longer than the input; the input list is never changed.
C14_CleanTerminates ==
    /\ <>(pc = "done")
    /\ [](/\ i <= Len(raw_bouts)
          /\ pc = "done" => i = Len(raw_bouts)
          /\ Len(cleaned) <= Len(raw_bouts)
          /\ Len(cleaned) <= i)
    /\ [][/\ raw_bouts' = raw_bouts
          /\ (pc = "loop" /\ pc' = "loop") => i' > i
          /\ pc' = "done" => i' = i
          /\ i' # i =>
                \/ /\ i' = i + 1
                   /\ \/ cleaned' = cleaned
                      \/ cleaned' = Append(cleaned, raw_bouts[i + 1])
                \/ /\ i' = i + 2
                   /\ cleaned' = Append(cleaned, <<raw_bouts[i + 1][1],
                                                   raw_bouts[i + 2][2]>>)]_vars

\* The function returned after two iterations over three raw bouts, a
\* merge (index 0 to 2) and a drop (index 2 to 3); the output is shorter
\* than the input.
C14_Witness ==
    /\ pc = "done"
    /\ Len(raw_bouts) = 3
    /\ i = 3
    /\ Len(cleaned) = 1
    /\ cleaned[1] = <<raw_bouts[1][1], raw_bouts[2][2]>>
    /\ cleaned[1] # raw_bouts[1] /\ cleaned[1] # raw_bouts[2]
====
